---- MODULE Spec2Model ----
(***************************************************************************)
(* A model of check_zpools: the alert-state store (alert_state.py), the    *)
(* threshold engine (monitor.py) and the daemon orchestrator (daemon.py).  *)
(*                                                                         *)
(* Time is counted in clock ticks, TicksPerHour ticks to the hour.  A      *)
(* datetime is the number of ticks since the model's epoch; an optional    *)
(* datetime is None (the empty tuple) or a one-element tuple.              *)
(***************************************************************************)
EXTENDS Integers, Sequences, FiniteSets, TLC

VARIABLES
    \* ---- AlertStateManager (alert_state.py)
    states,                 \* self.states: key -> AlertState
    state_file,             \* self.state_file: the path of the JSON file
    resend_interval_hours,  \* self.resend_interval_hours
    fs,                     \* the file system: path -> file content
    now,                    \* datetime.now(UTC), in ticks
    \* ---- history of the store, read by the properties only
    lastOp,                 \* the last store operation and what it returned
    saved,                  \* self.states as of the last successful write
    lostWrite,              \* a mutation since the last successful write failed to persist
    ops,                    \* number of store operations performed
    \* ---- ZPoolDaemon (daemon.py)
    pc,                     \* the worker's position in start()
    running,                \* self.running
    shutdown_event,         \* self.shutdown_event.is_set()
    handlers_installed,     \* signal.signal(...) has registered signal_handler
    handler_log,            \* the records signal_handler has written to the logger
    send_recovery_emails,   \* self.send_recovery_emails
    recipients,             \* EmailAlerter.recipients
    pools_to_monitor,       \* self.pools_to_monitor
    monitor_config,         \* PoolMonitor.config: None until a MonitorConfig is constructed
    previous_issues,        \* self.previous_issues: pool -> set of categories
    list_data,              \* _run_check_cycle's local list_data: the zpool list output
    status_data,            \* _run_check_cycle's local status_data: the zpool status output
    pools,                  \* _run_check_cycle's local pools: name -> PoolStatus
    issues,                 \* result.issues of the cycle in progress
    overall_severity,       \* result.overall_severity
    idx,                    \* position of _handle_check_result's loop in issues
    current_issues,         \* _handle_check_result's local current_issues
    cycles,                 \* number of check cycles started
    faults,                 \* number of cycles cut short by an exception so far
    \* ---- history of the daemon, read by the properties only
    cyc,                    \* what the cycle in progress (or just ended) has done
    prevCyc,                \* the same for the cycle before it
    delivered,              \* pair -> time of the last delivered alert since the last clear
    retryDue,               \* pairs whose last alert attempt failed (see C5)
    signalled               \* a signal was handled after the handlers were installed

storeVars == <<states, state_file, resend_interval_hours, fs, now>>
storeHist == <<lastOp, saved, lostWrite, ops>>
config == <<send_recovery_emails, recipients, pools_to_monitor, monitor_config>>
lifecycle == <<running, shutdown_event, handlers_installed, handler_log>>
locals == <<list_data, status_data, pools, issues, overall_severity, idx, current_issues>>
daemonVars == <<pc, lifecycle, config, previous_issues, locals, cycles, faults>>
daemonHist == <<cyc, prevCyc, delivered, retryDue, signalled>>
vars == <<storeVars, storeHist, daemonVars, daemonHist>>

(***************************************************************************)
(* Bounds of the model.                                                    *)
(***************************************************************************)
TicksPerHour == 2
MaxTime == 3
MaxAlertCount == 2
MaxOps == 3
MaxCycles == 3
MaxFaults == 1

None == <<>>
Some(t) == <<t>>

Pools == {"rpool", "tank"}
Categories == {"health", "capacity", "errors", "scrub"}
Pairs == Pools \X Categories

(***************************************************************************)
(* alert_state.py: keys, rows and the resend policy.                       *)
(***************************************************************************)
_make_key(pool_name, category) == pool_name \o ":" \o category

AlertState(pool_name, category, first_seen, last_alerted, alert_count) ==
    [pool_name |-> pool_name, issue_category |-> category, first_seen |-> first_seen,
     last_alerted |-> last_alerted, alert_count |-> alert_count]

\* timedelta(hours=h), in ticks
timedelta_hours(h) == h * TicksPerHour

should_alert_unthrottled(st, interval, pool_name, category, t) ==
    LET key == _make_key(pool_name, category) IN
    IF key \notin DOMAIN st THEN TRUE
    ELSE IF st[key].last_alerted = None THEN TRUE
    ELSE (t - st[key].last_alerted[1]) >= 0

should_alert_strict(st, interval, pool_name, category, t) ==
    LET key == _make_key(pool_name, category) IN
    IF key \notin DOMAIN st THEN TRUE
    ELSE IF st[key].last_alerted = None THEN TRUE
    ELSE (t - st[key].last_alerted[1]) > timedelta_hours(interval)

should_alert(st, interval, pool_name, category, t) ==
    LET key == _make_key(pool_name, category) IN
    IF key \notin DOMAIN st THEN TRUE
    ELSE IF st[key].last_alerted = None THEN TRUE
    ELSE (t - st[key].last_alerted[1]) >= timedelta_hours(interval)

\* a record_alert that starts the row of a known issue afresh
record_alert_afresh(st, pool_name, category, t) ==
    LET key == _make_key(pool_name, category) IN
    [k \in DOMAIN st \cup {key} |->
        IF k = key THEN AlertState(pool_name, category, t, Some(t), 1) ELSE st[k]]

\* a record_alert that sets last_alerted on an existing row and leaves its count
record_alert_uncounted(st, pool_name, category, t) ==
    LET key == _make_key(pool_name, category) IN
    IF key \in DOMAIN st
    THEN [st EXCEPT ![key].last_alerted = Some(t)]
    ELSE [k \in DOMAIN st \cup {key} |->
            IF k = key THEN AlertState(pool_name, category, t, Some(t), 1) ELSE st[k]]

\* the in-memory part of record_alert (the save follows in the action)
record_alert(st, pool_name, category, t) ==
    LET key == _make_key(pool_name, category) IN
    IF key \in DOMAIN st
    THEN [st EXCEPT ![key].last_alerted = Some(t), ![key].alert_count = @ + 1]
    ELSE [k \in DOMAIN st \cup {key} |->
            IF k = key THEN AlertState(pool_name, category, t, Some(t), 1) ELSE st[k]]

\* the in-memory part of clear_issue
clear_issue(st, pool_name, category) ==
    LET key == _make_key(pool_name, category) IN
    [k \in DOMAIN st \ {key} |-> st[k]]

(***************************************************************************)
(* alert_state.py: the JSON document and the file system.                  *)
(* datetime.isoformat() prints the sub-hour part only when it is not zero  *)
(* (as Python omits zero microseconds); fromisoformat() reads both forms.  *)
(***************************************************************************)
isoformat(t) ==
    IF t % TicksPerHour = 0 THEN <<t \div TicksPerHour>>
    ELSE <<t \div TicksPerHour, t % TicksPerHour>>

fromisoformat(s) ==
    IF Len(s) = 2 THEN s[1] * TicksPerHour + s[2] ELSE s[1] * TicksPerHour

\* A JSON value where a timestamp is expected: a string (its text as isoformat prints
\* it, or any other text), a number or null.
JsonString(text) == [type |-> "string", v |-> text]
JsonNumber(n) == [type |-> "number", v |-> <<n>>]
JsonNull == [type |-> "null", v |-> <<>>]

\* Python's truth value of a JSON value: null, "" and 0 are false
truthy(j) ==
    CASE j.type = "null" -> FALSE
      [] j.type = "string" -> j.v # <<>>
      [] OTHER -> j.v # <<0>>

\* the texts datetime.fromisoformat accepts
parses(text) == Len(text) \in {1, 2} /\ (Len(text) = 2 => text[2] \in 0..(TicksPerHour - 1))

\* datetime.fromisoformat(j): the exception it raises, "none" when it returns
fromisoformat_error(j) ==
    IF j.type # "string" THEN "TypeError"
    ELSE IF ~parses(j.v) THEN "ValueError"
    ELSE "none"

\* the dict save_state builds for one AlertState
EntryOf(state) ==
    [pool_name |-> state.pool_name,
     issue_category |-> state.issue_category,
     first_seen |-> JsonString(isoformat(state.first_seen)),
     last_alerted |-> IF state.last_alerted # None
                      THEN JsonString(isoformat(state.last_alerted[1])) ELSE JsonNull,
     alert_count |-> state.alert_count]

\* {"version": 1, "alerts": alerts}
DocumentOf(st) == [version |-> 1, alerts |-> [k \in DOMAIN st |-> EntryOf(st[k])]]

\* the AlertState load_state builds from one entry of the document
StateOf(entry) ==
    AlertState(entry.pool_name, entry.issue_category,
               fromisoformat(entry.first_seen.v),
               IF truthy(entry.last_alerted)
               THEN Some(fromisoformat(entry.last_alerted.v)) ELSE None,
               entry.alert_count)

\* the exception the body of load_state's "for key, state_dict" raises for one entry
\* ("none" when the entry is loaded), its expressions evaluated in the code's order
entry_error(entry) ==
    IF "first_seen" \notin DOMAIN entry THEN "KeyError"
    ELSE IF fromisoformat_error(entry.first_seen) # "none"
    THEN fromisoformat_error(entry.first_seen)
    ELSE IF "last_alerted" \notin DOMAIN entry THEN "KeyError"
    ELSE IF truthy(entry.last_alerted) /\ fromisoformat_error(entry.last_alerted) # "none"
    THEN fromisoformat_error(entry.last_alerted)
    ELSE IF {"pool_name", "issue_category", "alert_count"} \ DOMAIN entry # {}
    THEN "KeyError"
    ELSE "none"

\* except (KeyError, ValueError): the entry is skipped
skipped(entry) == entry_error(entry) \in {"KeyError", "ValueError"}

EmptyDocument == [version |-> 1, alerts |-> <<>>]

\* A file: absent, or text that is a whole JSON document, a proper prefix of one
\* ("part") or empty ("none").
NoFile == [exists |-> FALSE, written |-> "none", data |-> EmptyDocument]
EmptyFile == [exists |-> TRUE, written |-> "none", data |-> EmptyDocument]
PartialFile == [exists |-> TRUE, written |-> "part", data |-> EmptyDocument]
WholeFile(doc) == [exists |-> TRUE, written |-> "all", data |-> doc]

\* Path.with_suffix: a path is a stem and a suffix
with_suffix(path, suffix) == [stem |-> path.stem, suffix |-> suffix]

StateFileNames == {[stem |-> "alert_state", suffix |-> ".json"],
                   [stem |-> "alert_state", suffix |-> ".tmp"]}
DefaultStateFile == [stem |-> "alert_state", suffix |-> ".json"]
AllPaths == StateFileNames \cup {with_suffix(p, ".tmp") : p \in StateFileNames}

\* Path.replace: rename src over dst (renaming a file onto itself changes nothing)
replace(f, src, dst) ==
    IF src = dst THEN f ELSE [f EXCEPT ![dst] = f[src], ![src] = NoFile]

\* the entries of the document load_state's loop reaches: none when the file is
\* missing, is not a JSON document (json.JSONDecodeError) or has another version
entries_read(f, path) ==
    IF ~f[path].exists THEN <<>>
    ELSE IF f[path].written # "all" THEN <<>>
    ELSE IF f[path].data.version # 1 THEN <<>>
    ELSE f[path].data.alerts

\* load_state raises: an entry raises an exception that "except (KeyError, ValueError)"
\* does not catch, and neither of the outer handlers catches it
load_state_raises(f, path) ==
    \E k \in DOMAIN entries_read(f, path) :
        ~skipped(entries_read(f, path)[k]) /\ entry_error(entries_read(f, path)[k]) # "none"

\* load_state: what a manager constructed on this file holds
load_state(f, path) ==
    LET alerts == entries_read(f, path) IN
    [k \in {j \in DOMAIN alerts : entry_error(alerts[j]) = "none"} |-> StateOf(alerts[k])]

\* save_state: the outcomes of one call.  "ok" is a completed save; the others are
\* an OSError (or the end of the process) at temp_file.open, inside json.dump before
\* or after some text was written, and at temp_file.replace.
SaveOutcomes == {"ok", "open_fails", "dump_fails_empty", "dump_fails_partial", "replace_fails"}

save_state(f, st, path, outcome) ==
    LET temp_file == with_suffix(path, ".tmp") IN
    CASE outcome = "open_fails"         -> f
      [] outcome = "dump_fails_empty"   -> [f EXCEPT ![temp_file] = EmptyFile]
      [] outcome = "dump_fails_partial" -> [f EXCEPT ![temp_file] = PartialFile]
      [] outcome = "replace_fails"      -> [f EXCEPT ![temp_file] = WholeFile(DocumentOf(st))]
      [] OTHER -> replace([f EXCEPT ![temp_file] = WholeFile(DocumentOf(st))],
                          temp_file, path)

(***************************************************************************)
(* models.py is not among the sources: Severity and PoolHealth follow the  *)
(* data model of the specification (section 3).                            *)
(***************************************************************************)
Severities == {"OK", "INFO", "WARNING", "CRITICAL"}

\* the order of Severity: OK < INFO < WARNING < CRITICAL
SeverityRank(s) ==
    CASE s = "OK" -> 0 [] s = "INFO" -> 1 [] s = "WARNING" -> 2 [] OTHER -> 3

is_healthy(health) == health = "ONLINE"
is_critical(health) == health \in {"FAULTED", "UNAVAIL", "REMOVED"}

PoolStatus(name, health, capacity_percent, size_bytes, allocated_bytes, free_bytes, read_errors, write_errors, checksum_errors, last_scrub, scrub_errors, scrub_in_progress) ==
    [name |-> name, health |-> health, capacity_percent |-> capacity_percent,
     size_bytes |-> size_bytes, allocated_bytes |-> allocated_bytes,
     free_bytes |-> free_bytes,
     read_errors |-> read_errors, write_errors |-> write_errors,
     checksum_errors |-> checksum_errors, last_scrub |-> last_scrub,
     scrub_errors |-> scrub_errors, scrub_in_progress |-> scrub_in_progress]

PoolIssue(pool_name, severity, category, message) ==
    [pool_name |-> pool_name, severity |-> severity, category |-> category,
     message |-> message]

(***************************************************************************)
(* monitor.py: MonitorConfig, its defaults and validation, and the rules.  *)
(***************************************************************************)
capacity_warning_percent == 80
capacity_critical_percent == 90
scrub_max_age_days == 30
read_errors_warning == 1
write_errors_warning == 1
checksum_errors_warning == 1

MonitorConfig(cw, cc, sd, re, we, ce) ==
    [capacity_warning_percent |-> cw, capacity_critical_percent |-> cc,
     scrub_max_age_days |-> sd, read_errors_warning |-> re,
     write_errors_warning |-> we, checksum_errors_warning |-> ce]

\* MonitorConfig()
DefaultMonitorConfig ==
    MonitorConfig(capacity_warning_percent, capacity_critical_percent, scrub_max_age_days,
                  read_errors_warning, write_errors_warning, checksum_errors_warning)

\* MonitorConfig.__post_init__: TRUE when it raises ValueError
post_init_raises(cfg) ==
    \/ cfg.capacity_warning_percent >= cfg.capacity_critical_percent
    \/ cfg.capacity_warning_percent < 0
    \/ cfg.capacity_critical_percent > 100

HoursPerDay == 24

_check_health(pool) ==
    IF is_healthy(pool.health) THEN <<>>
    ELSE <<PoolIssue(pool.name, IF is_critical(pool.health) THEN "CRITICAL" ELSE "WARNING",
                     "health", "health")>>

\* a capacity rule whose thresholds are exclusive
_check_capacity_exclusive(cfg, pool) ==
    IF pool.capacity_percent > cfg.capacity_critical_percent
    THEN <<PoolIssue(pool.name, "CRITICAL", "capacity", "capacity")>>
    ELSE IF pool.capacity_percent > cfg.capacity_warning_percent
    THEN <<PoolIssue(pool.name, "WARNING", "capacity", "capacity")>>
    ELSE <<>>

_check_capacity(cfg, pool) ==
    IF pool.capacity_percent >= cfg.capacity_critical_percent
    THEN <<PoolIssue(pool.name, "CRITICAL", "capacity", "capacity")>>
    ELSE IF pool.capacity_percent >= cfg.capacity_warning_percent
    THEN <<PoolIssue(pool.name, "WARNING", "capacity", "capacity")>>
    ELSE <<>>

\* an error rule that compares the counters with the thresholds only
_check_errors_threshold_only(cfg, pool) ==
    (IF pool.read_errors >= cfg.read_errors_warning
     THEN <<PoolIssue(pool.name, "WARNING", "errors", "read errors")>> ELSE <<>>)
    \o (IF pool.write_errors >= cfg.write_errors_warning
        THEN <<PoolIssue(pool.name, "WARNING", "errors", "write errors")>> ELSE <<>>)
    \o (IF pool.checksum_errors >= cfg.checksum_errors_warning
        THEN <<PoolIssue(pool.name, "WARNING", "errors", "checksum errors")>> ELSE <<>>)

_check_errors(cfg, pool) ==
    (IF pool.read_errors > 0 /\ pool.read_errors >= cfg.read_errors_warning
     THEN <<PoolIssue(pool.name, "WARNING", "errors", "read errors")>> ELSE <<>>)
    \o (IF pool.write_errors > 0 /\ pool.write_errors >= cfg.write_errors_warning
        THEN <<PoolIssue(pool.name, "WARNING", "errors", "write errors")>> ELSE <<>>)
    \o (IF pool.checksum_errors > 0 /\ pool.checksum_errors >= cfg.checksum_errors_warning
        THEN <<PoolIssue(pool.name, "WARNING", "errors", "checksum errors")>> ELSE <<>>)

\* timedelta.days of (t - last_scrub)
age_days(t, last_scrub) == (t - last_scrub) \div (HoursPerDay * TicksPerHour)

\* a scrub rule that reports a scrub whose age equals the limit
_check_scrub_at_limit(cfg, pool, t) ==
    IF pool.scrub_errors > 0
    THEN <<PoolIssue(pool.name, "WARNING", "scrub", "scrub errors")>>
    ELSE IF cfg.scrub_max_age_days > 0
    THEN IF pool.last_scrub = None
         THEN <<PoolIssue(pool.name, "INFO", "scrub", "never scrubbed")>>
         ELSE IF age_days(t, pool.last_scrub[1]) >= cfg.scrub_max_age_days
         THEN <<PoolIssue(pool.name, "INFO", "scrub", "scrub too old")>>
         ELSE <<>>
    ELSE <<>>

_check_scrub(cfg, pool, t) ==
    IF pool.scrub_errors > 0
    THEN <<PoolIssue(pool.name, "WARNING", "scrub", "scrub errors")>>
    ELSE IF cfg.scrub_max_age_days > 0
    THEN IF pool.last_scrub = None
         THEN <<PoolIssue(pool.name, "INFO", "scrub", "never scrubbed")>>
         ELSE IF age_days(t, pool.last_scrub[1]) > cfg.scrub_max_age_days
         THEN <<PoolIssue(pool.name, "INFO", "scrub", "scrub too old")>>
         ELSE <<>>
    ELSE <<>>

check_pool(cfg, pool, t) ==
    _check_health(pool) \o _check_capacity(cfg, pool) \o _check_errors(cfg, pool)
    \o _check_scrub(cfg, pool, t)

\* the iteration order of the pools dict (the order of the pools in the zpool output)
PoolOrder == <<"rpool", "tank">>

RECURSIVE IssuesFrom(_, _, _, _)
IssuesFrom(cfg, ps, t, i) ==
    IF i > Len(PoolOrder) THEN <<>>
    ELSE (IF PoolOrder[i] \in DOMAIN ps THEN check_pool(cfg, ps[PoolOrder[i]], t) ELSE <<>>)
         \o IssuesFrom(cfg, ps, t, i + 1)

\* check_all_pools(pools).issues
check_all_pools(cfg, ps, t) == IssuesFrom(cfg, ps, t, 1)

\* max(issue.severity for issue in all_issues): the first of the greatest, found by
\* comparing each severity with the greatest so far
RECURSIVE max_severity(_, _)
max_severity(greatest, rest) ==
    IF rest = <<>> THEN greatest
    ELSE max_severity(IF SeverityRank(Head(rest).severity) > SeverityRank(greatest)
                      THEN Head(rest).severity ELSE greatest,
                      Tail(rest))

\* an overall severity that is the severity of the first issue
overall_severity_first(all_issues) ==
    IF all_issues = <<>> THEN "OK" ELSE Head(all_issues).severity

\* check_all_pools(pools).overall_severity
overall_severity_of(all_issues) ==
    IF all_issues = <<>> THEN "OK"
    ELSE max_severity(Head(all_issues).severity, Tail(all_issues))

\* Severity.is_critical
severity_is_critical(severity) == severity = "CRITICAL"

\* an exit code that is the rank of the severity
get_exit_code_for_rank(severity) == SeverityRank(severity)

\* formatters.py: the exit code of the one-shot check
get_exit_code_for_severity(severity) ==
    IF severity_is_critical(severity) THEN 2
    ELSE IF severity = "WARNING" THEN 1
    ELSE 0

(***************************************************************************)
(* zfs_parser.py: the parsed JSON of "zpool list -j" and "zpool status -j" *)
(* to PoolStatus maps.  A property value or counter is a JSON value; the   *)
(* text of a number n is <<n>> and any other text is not a number.         *)
(***************************************************************************)
PoolHealths == {"ONLINE", "DEGRADED", "FAULTED", "OFFLINE", "UNAVAIL", "REMOVED"}

\* int(j): the exception it raises ("none" when it returns), and what it returns
int_error(j) ==
    CASE j.type = "null" -> "TypeError"
      [] j.type = "string" -> IF Len(j.v) = 1 THEN "none" ELSE "ValueError"
      [] OTHER -> "none"

int_of(j) == j.v[1]

_parse_health_state(health_value) ==
    IF health_value \in PoolHealths THEN health_value ELSE "OFFLINE"

\* float(capacity_str), 0.0 when it raises ValueError
capacity_of(j) == IF int_error(j) = "none" THEN int_of(j) ELSE 0

\* _parse_pool_from_list raises: _parse_size_to_bytes raises ValueError for one of the
\* three sizes
list_entry_raises(pool_data) ==
    \E f \in {"size", "allocated", "free"} : int_error(pool_data[f]) # "none"

_parse_pool_from_list(pool_name, pool_data) ==
    PoolStatus(pool_name, _parse_health_state(pool_data.health),
               capacity_of(pool_data.capacity), int_of(pool_data.size),
               int_of(pool_data.allocated), int_of(pool_data.free),
               0, 0, 0, None, 0, FALSE)

\* parse_pool_list: an entry that raises is logged and left out
parse_pool_list(json_data) ==
    [q \in {n \in DOMAIN json_data : ~list_entry_raises(json_data[n])} |->
        _parse_pool_from_list(q, json_data[q])]

\* the three assignments of one "try" of _extract_error_counts, made in order into the
\* errors dict until an int() raises: the dict as it is left and whether all were made
ReadCounters(errors, source) ==
    IF int_error(source.read_errors) # "none" THEN [errors |-> errors, ok |-> FALSE]
    ELSE LET e1 == [errors EXCEPT !.read = int_of(source.read_errors)] IN
         IF int_error(source.write_errors) # "none" THEN [errors |-> e1, ok |-> FALSE]
         ELSE LET e2 == [e1 EXCEPT !.write = int_of(source.write_errors)] IN
              IF int_error(source.checksum_errors) # "none"
              THEN [errors |-> e2, ok |-> FALSE]
              ELSE [errors |-> [e2 EXCEPT !.checksum = int_of(source.checksum_errors)],
                    ok |-> TRUE]

\* _extract_error_counts: the newer source (the root entry of "vdevs") is tried first,
\* then the older one ("vdev_tree"/"stats"), both writing into the same dict
_extract_error_counts(pool_data) ==
    LET zeros == [read |-> 0, write |-> 0, checksum |-> 0]
        newer == IF pool_data.vdevs.present THEN ReadCounters(zeros, pool_data.vdevs)
                 ELSE [errors |-> zeros, ok |-> FALSE]
    IN IF newer.ok THEN newer.errors
       ELSE IF pool_data.vdev_tree.present
       THEN ReadCounters(newer.errors, pool_data.vdev_tree).errors
       ELSE newer.errors

\* _parse_scrub_time: the first timestamp field that int() accepts
_parse_scrub_time(scan_info) ==
    IF scan_info.kind = "absent" THEN None
    ELSE IF int_error(scan_info.end_time) = "none" THEN Some(int_of(scan_info.end_time))
    ELSE None

\* _extract_scrub_info raises AttributeError when the scan block is not an object
scrub_info_raises(pool_data) == pool_data.scan.kind = "malformed"

_extract_scrub_info(pool_data) ==
    [last_scrub |-> _parse_scrub_time(pool_data.scan),
     scrub_errors |-> IF pool_data.scan.kind = "absent"
                         \/ int_error(pool_data.scan.errors) # "none"
                      THEN 0 ELSE int_of(pool_data.scan.errors),
     scrub_in_progress |-> pool_data.scan.kind # "absent" /\ pool_data.scan.state = "SCANNING"]

_parse_pool_from_status(pool_name, pool_data) ==
    LET errors == _extract_error_counts(pool_data)
        scrub_info == _extract_scrub_info(pool_data)
    IN PoolStatus(pool_name, _parse_health_state(pool_data.state), 0, 0, 0, 0,
                  errors.read, errors.write, errors.checksum,
                  scrub_info.last_scrub, scrub_info.scrub_errors,
                  scrub_info.scrub_in_progress)

\* parse_pool_status: an entry that raises is logged and left out
parse_pool_status(json_data) ==
    [q \in {n \in DOMAIN json_data : ~scrub_info_raises(json_data[n])} |->
        _parse_pool_from_status(q, json_data[q])]

\* a merge that keeps the list entry's health
merge_pool_data_list_health(list_pools, status_pools) ==
    [q \in DOMAIN list_pools \cup DOMAIN status_pools |->
        IF q \in DOMAIN list_pools
        THEN IF q \in DOMAIN status_pools
             THEN [status_pools[q] EXCEPT
                     !.health = list_pools[q].health,
                     !.capacity_percent = list_pools[q].capacity_percent,
                     !.size_bytes = list_pools[q].size_bytes,
                     !.allocated_bytes = list_pools[q].allocated_bytes,
                     !.free_bytes = list_pools[q].free_bytes]
             ELSE list_pools[q]
        ELSE status_pools[q]]

merge_pool_data(list_pools, status_pools) ==
    [q \in DOMAIN list_pools \cup DOMAIN status_pools |->
        IF q \in DOMAIN list_pools
        THEN IF q \in DOMAIN status_pools
             THEN PoolStatus(q, status_pools[q].health, list_pools[q].capacity_percent,
                             list_pools[q].size_bytes, list_pools[q].allocated_bytes,
                             list_pools[q].free_bytes, status_pools[q].read_errors,
                             status_pools[q].write_errors, status_pools[q].checksum_errors,
                             status_pools[q].last_scrub, status_pools[q].scrub_errors,
                             status_pools[q].scrub_in_progress)
             ELSE list_pools[q]
        ELSE status_pools[q]]

(***************************************************************************)
(* alerting.py: the boolean send_alert and send_recovery return, given the *)
(* recipients and what the SMTP transport does.                            *)
(***************************************************************************)
TransportOutcomes == {"sent", "refused", "raises"}
alert_recipients == {"admin@example.com"}

\* a call of send_email that is not inside a try: its exception leaves the method
send_email_unguarded(transport) ==
    [called |-> TRUE, raised |-> transport = "raises", value |-> transport = "sent"]

\* "try: return send_email(...) except Exception: return False"
try_send_email(transport) ==
    [called |-> TRUE, raised |-> FALSE, value |-> transport = "sent"]

\* the "return False" before the transport is reached
NotSent == [called |-> FALSE, raised |-> FALSE, value |-> FALSE]

\* send_alert and send_recovery: whether send_email was called, whether an exception
\* left the method, and the value returned
send_alert_call(to, transport) ==
    IF to = {} THEN NotSent ELSE try_send_email(transport)

send_recovery_call(include_recovery_alerts, to, transport) ==
    IF ~include_recovery_alerts THEN NotSent
    ELSE IF to = {} THEN NotSent
    ELSE try_send_email(transport)

send_alert(to, transport) == send_alert_call(to, transport).value

send_recovery(include_recovery_alerts, to, transport) ==
    send_recovery_call(include_recovery_alerts, to, transport).value

(***************************************************************************)
(* The store on its own: any sequence of should_alert, record_alert and    *)
(* clear_issue calls on one AlertStateManager, the clock advancing, and a  *)
(* new manager constructed on the same file (a restart).                   *)
(***************************************************************************)
ResendChoices == {0, 1}
StoreIssues == {<<"rpool", "capacity">>, <<"tank", "errors">>}

Op(op, pool_name, category, result, before) ==
    [op |-> op, pool |-> pool_name, category |-> category, result |-> result,
     at |-> now, before |-> before]

\* ZPoolDaemon.__init__ (the daemon is constructed and not started)
DaemonConstructed ==
    /\ pc = "init"
    /\ running = FALSE
    /\ shutdown_event = FALSE
    /\ handlers_installed = FALSE
    /\ handler_log = {}
    /\ previous_issues = <<>>
    /\ list_data = <<>>
    /\ status_data = <<>>
    /\ pools = <<>>
    /\ issues = <<>>
    /\ overall_severity = "OK"
    /\ idx = 1
    /\ current_issues = <<>>
    /\ cycles = 0
    /\ faults = 0

\* the record of one check cycle: how it ended, the (pool, category) pairs of its
\* result, its send_alert calls in order (pair and return value), its send_recovery
\* calls in order and those that returned false, and the number of send_alert calls made
\* when a signal reached it (None while none has)
NoCycle ==
    [outcome |-> "none", ticked |-> FALSE, issues |-> {}, sends |-> <<>>,
     sendsAtSignal |-> None,
     recoveryCalls |-> <<>>, recoveryFailed |-> {},
     dueAtStart |-> {}, failedAtStart |-> {}, alertedPresent |-> {}, fresh |-> {}]

SendCalled(c) == {c.sends[i].pair : i \in DOMAIN c.sends}
SendOk(c) == {c.sends[i].pair : i \in {j \in DOMAIN c.sends : c.sends[j].ok}}
SendFailed(c) == {c.sends[i].pair : i \in {j \in DOMAIN c.sends : ~c.sends[j].ok}}

\* what the properties read of the cycle before the one in progress
Summary(c) ==
    [outcome |-> c.outcome, issues |-> c.issues, alertedPresent |-> c.alertedPresent,
     fresh |-> c.fresh]

DaemonHistInit ==
    /\ cyc = NoCycle
    /\ prevCyc = Summary(NoCycle)
    /\ delivered = [k \in Pairs |-> None]
    /\ retryDue = [due |-> {}, failed |-> {}]
    /\ signalled = FALSE

\* AlertStateManager.__init__ on a file system that holds no state file yet
StoreConstructed ==
    /\ state_file \in StateFileNames
    /\ resend_interval_hours \in ResendChoices
    /\ fs = [p \in AllPaths |-> NoFile]
    /\ now = 0
    /\ states = load_state(fs, state_file)
    /\ lastOp = Op("init", "", "", TRUE, <<>>)
    /\ saved = states
    /\ lostWrite = FALSE
    /\ ops = 0

StoreInit ==
    /\ StoreConstructed
    /\ send_recovery_emails = TRUE
    /\ recipients = alert_recipients
    /\ pools_to_monitor = <<>>
    /\ monitor_config = Some(DefaultMonitorConfig)
    /\ DaemonConstructed
    /\ DaemonHistInit

SShouldAlert(p, c) ==
    /\ lastOp' = Op("should_alert", p, c,
                    should_alert(states, resend_interval_hours, p, c, now), states)
    /\ UNCHANGED <<storeVars, saved, lostWrite, ops, daemonVars, daemonHist>>

SRecordAlert(p, c, o) ==
    /\ ops < MaxOps
    /\ _make_key(p, c) \in DOMAIN states => states[_make_key(p, c)].alert_count < MaxAlertCount
    /\ states' = record_alert(states, p, c, now)
    /\ fs' = save_state(fs, states', state_file, o)
    /\ saved' = IF o = "ok" THEN states' ELSE saved
    /\ lostWrite' = (o # "ok")
    /\ lastOp' = Op("record_alert", p, c, TRUE, states)
    /\ ops' = ops + 1
    /\ UNCHANGED <<state_file, resend_interval_hours, now, daemonVars, daemonHist>>

SClearIssue(p, c, o) ==
    /\ ops < MaxOps
    /\ states' = clear_issue(states, p, c)
    /\ IF _make_key(p, c) \in DOMAIN states
       THEN /\ fs' = save_state(fs, states', state_file, o)
            /\ saved' = IF o = "ok" THEN states' ELSE saved
            /\ lostWrite' = (o # "ok")
       ELSE UNCHANGED <<fs, saved, lostWrite>>
    /\ lastOp' = Op("clear_issue", p, c, _make_key(p, c) \in DOMAIN states, states)
    /\ ops' = ops + 1
    /\ UNCHANGED <<state_file, resend_interval_hours, now, daemonVars, daemonHist>>

\* a new AlertStateManager(state_file, resend_interval_hours) on the same file
SRestart ==
    /\ ops < MaxOps
    /\ states' = load_state(fs, state_file)
    /\ lastOp' = Op("restart", "", "", lostWrite, saved)
    /\ saved' = states'
    /\ lostWrite' = FALSE
    /\ ops' = ops + 1
    /\ UNCHANGED <<state_file, resend_interval_hours, fs, now, daemonVars, daemonHist>>

STick ==
    /\ now < MaxTime
    /\ now' = now + 1
    /\ UNCHANGED <<states, state_file, resend_interval_hours, fs, storeHist,
                   daemonVars, daemonHist>>

StoreNext ==
    \/ \E i \in StoreIssues : SShouldAlert(i[1], i[2])
    \/ \E i \in StoreIssues, o \in SaveOutcomes : SRecordAlert(i[1], i[2], o)
    \/ \E i \in StoreIssues, o \in SaveOutcomes : SClearIssue(i[1], i[2], o)
    \/ SRestart
    \/ STick

StoreSpec == StoreInit /\ [][StoreNext]_vars

(***************************************************************************)
(* Construction on a state file of any content: a version-1 or version-2   *)
(* document whose entries are whole, lack a field or hold a value that is  *)
(* unparseable or of the wrong type, or a file that is no JSON document.   *)
(***************************************************************************)
WholeEntry(k) == EntryOf(AlertState(k[1], k[2], 0, Some(1), 1))

Without(entry, field) == [x \in DOMAIN entry \ {field} |-> entry[x]]

EntryChoices(k) ==
    {WholeEntry(k),
     [WholeEntry(k) EXCEPT !.last_alerted = JsonNull],
     Without(WholeEntry(k), "first_seen"),
     Without(WholeEntry(k), "alert_count"),
     [WholeEntry(k) EXCEPT !.first_seen = JsonString(<<>>)],
     [WholeEntry(k) EXCEPT !.last_alerted = JsonString(<<0, 0, 0>>)],
     [WholeEntry(k) EXCEPT !.first_seen = JsonNumber(5)],
     [WholeEntry(k) EXCEPT !.last_alerted = JsonNumber(0)],
     [WholeEntry(k) EXCEPT !.last_alerted = JsonNumber(7)]}

AlertsChoices ==
    UNION {{a \in [{_make_key(k[1], k[2]) : k \in K} -> UNION {EntryChoices(k) : k \in K}] :
              \A k \in K : a[_make_key(k[1], k[2])] \in EntryChoices(k)} :
           K \in SUBSET StoreIssues}

FileChoices ==
    {NoFile, EmptyFile, PartialFile}
    \cup {WholeFile([version |-> v, alerts |-> a]) : v \in {1, 2}, a \in AlertsChoices}

LoadInit ==
    /\ state_file = DefaultStateFile
    /\ resend_interval_hours = 1
    /\ \E file \in FileChoices :
          fs = [p \in AllPaths |-> IF p = state_file THEN file ELSE NoFile]
    /\ now = MaxTime
    /\ states = <<>>
    /\ lastOp = Op("none", "", "", TRUE, <<>>)
    /\ saved = <<>>
    /\ lostWrite = FALSE
    /\ ops = 0
    /\ send_recovery_emails = TRUE
    /\ recipients = alert_recipients
    /\ pools_to_monitor = <<>>
    /\ monitor_config = Some(DefaultMonitorConfig)
    /\ DaemonConstructed
    /\ DaemonHistInit

\* AlertStateManager(state_file, resend_interval_hours): __init__ ends with
\* self.load_state(); result is FALSE when the call raised
Construct ==
    /\ lastOp.op = "none"
    /\ IF load_state_raises(fs, state_file)
       THEN /\ lastOp' = Op("init", "", "", FALSE, <<>>)
            /\ UNCHANGED states
       ELSE /\ lastOp' = Op("init", "", "", TRUE, <<>>)
            /\ states' = load_state(fs, state_file)
    /\ UNCHANGED <<state_file, resend_interval_hours, fs, now, saved, lostWrite, ops,
                   daemonVars, daemonHist>>

LoadSpec == LoadInit /\ [][Construct]_vars

(***************************************************************************)
(* daemon.py: the orchestrator.  start() is run by the main thread; the    *)
(* signal handler runs on the same thread between two of its steps.        *)
(*                                                                         *)
(* A check cycle lasts seconds (the subprocess and SMTP timeouts bound     *)
(* it), less than one clock tick, so the clock crosses at most one tick    *)
(* boundary while a cycle is in progress.                                  *)
(***************************************************************************)
send_ok_emails == FALSE

CyclePcs == {"fetch", "parse", "classify", "handle", "detect"}

PairOf(issue) == <<issue.pool_name, issue.category>>
IssuePairs(is) == {PairOf(is[i]) : i \in DOMAIN is}
KeyOfPair(k) == _make_key(k[1], k[2])
Occurrences(seq, x) == Cardinality({i \in DOMAIN seq : seq[i] = x})
Range(seq) == {seq[i] : i \in DOMAIN seq}

\* current_issues[pool_name].add(category), creating the set on first use
AddIssue(m, pool_name, category) ==
    [q \in DOMAIN m \cup {pool_name} |->
        IF q = pool_name
        THEN (IF pool_name \in DOMAIN m THEN m[pool_name] ELSE {}) \cup {category}
        ELSE m[q]]

\* the map {pool -> categories} _detect_recoveries builds from result.issues
IssueMap(is) ==
    [q \in {is[i].pool_name : i \in DOMAIN is} |->
        {is[i].category : i \in {j \in DOMAIN is : is[j].pool_name = q}}]

\* the (pool, category) pairs _detect_recoveries finds resolved
Resolved(prev, is) ==
    {k \in Pairs : /\ k[1] \in DOMAIN prev
                   /\ k[2] \in prev[k[1]]
                   /\ k[2] \notin (IF k[1] \in DOMAIN IssueMap(is)
                                   THEN IssueMap(is)[k[1]] ELSE {})}

\* the orders in which a set can be iterated
OrdersOf(S) ==
    {q \in [1..Cardinality(S) -> S] : \A i, j \in 1..Cardinality(S) : i # j => q[i] # q[j]}

\* the loop of _detect_recoveries over the resolved pairs, in the order todo: for each
\* pair whose recovery e-mail was sent, clear_issue (which saves when a row existed)
RECURSIVE ClearResolved(_, _, _, _, _, _)
ClearResolved(st, f, path, todo, sent, outs) ==
    IF todo = <<>> THEN [states |-> st, fs |-> f]
    ELSE LET k == Head(todo) IN
         IF k \in sent /\ KeyOfPair(k) \in DOMAIN st
         THEN ClearResolved(clear_issue(st, k[1], k[2]),
                            save_state(f, clear_issue(st, k[1], k[2]), path, outs[k]),
                            path, Tail(todo), sent, outs)
         ELSE ClearResolved(st, f, path, Tail(todo), sent, outs)

\* what the two zpool commands report once parsed and merged: each pool absent or in
\* one of a few conditions
Healthy(name) == PoolStatus(name, "ONLINE", 50, 2, 1, 1, 0, 0, 0, Some(0), 0, FALSE)
Rpool(capacity_percent, errors) ==
    [Healthy("rpool") EXCEPT !.capacity_percent = capacity_percent,
                             !.read_errors = errors, !.write_errors = errors]
Tank(capacity_percent) == [Healthy("tank") EXCEPT !.capacity_percent = capacity_percent]
PoolMaps ==
    {[q \in {"tank"} |-> Tank(95)],
     [q \in {"rpool"} |-> Rpool(50, 0)],
     [q \in {"rpool"} |-> Rpool(85, 0)],
     [q \in {"rpool"} |-> Rpool(50, 1)],
     [q \in {"rpool", "tank"} |-> IF q = "rpool" THEN Rpool(85, 0) ELSE Tank(95)]}

\* the pools of the runs that exercise start-up and shutdown
ShutdownPoolMaps ==
    {[q \in {"rpool"} |-> Rpool(50, 0)], [q \in {"rpool"} |-> Rpool(85, 0)]}

\* the save outcomes the daemon's runs are explored with (StoreSpec explores all)
DaemonSaveOutcomes == {"ok"}

\* a state file left by an earlier run of the daemon
InitialFiles == {NoFile, WholeFile(DocumentOf(record_alert(<<>>, "rpool", "capacity", 0)))}

DaemonInit ==
    /\ state_file = DefaultStateFile
    /\ resend_interval_hours \in ResendChoices
    /\ fs \in {[q \in AllPaths |-> IF q = DefaultStateFile THEN c ELSE NoFile] :
                 c \in InitialFiles}
    /\ now = 0
    /\ states = load_state(fs, state_file)
    /\ lastOp = Op("init", "", "", TRUE, <<>>)
    /\ saved = states
    /\ lostWrite = FALSE
    /\ ops = 0
    /\ send_recovery_emails = TRUE
    /\ recipients = alert_recipients
    /\ pools_to_monitor = <<"rpool">>
    /\ monitor_config = Some(DefaultMonitorConfig)
    /\ DaemonConstructed
    /\ DaemonHistInit

\* start(), line 117: self._setup_signal_handlers()
SetupSignalHandlers ==
    /\ pc = "init"
    /\ handlers_installed' = TRUE
    /\ pc' = "installed"
    /\ UNCHANGED <<storeVars, storeHist, running, shutdown_event, handler_log, config,
                   previous_issues, locals, cycles, faults, daemonHist>>

\* start(), line 118: self.running = True, then the loop is entered
SetRunning ==
    /\ pc = "installed"
    /\ running' = TRUE
    /\ pc' = "loop"
    /\ UNCHANGED <<storeVars, storeHist, shutdown_event, handlers_installed, handler_log,
                   config, previous_issues, locals, cycles, faults, daemonHist>>

\* stop(): the values of running and shutdown_event it leaves
stop_running(r) == FALSE
stop_event(r, e) == IF ~r THEN e ELSE TRUE

\* the records stop() writes with logger.info
stop_log(r) == IF ~r THEN {} ELSE {"Stopping daemon gracefully", "Daemon stopped"}

\* the records signal_handler writes: its own logger.info and those of stop()
signal_handler_log(r) == {"Received signal, initiating shutdown"} \cup stop_log(r)

\* signal_handler(signum, frame): logs the signal's name and runs self.stop()
SignalHandler ==
    /\ handlers_installed
    /\ pc # "returned"
    /\ handler_log' = handler_log \cup signal_handler_log(running)
    /\ running' = stop_running(running)
    /\ shutdown_event' = stop_event(running, shutdown_event)
    /\ signalled' = TRUE
    /\ cyc' = IF pc \in CyclePcs /\ cyc.sendsAtSignal = None
              THEN [cyc EXCEPT !.sendsAtSignal = Some(Len(cyc.sends))]
              ELSE cyc
    /\ UNCHANGED <<storeVars, storeHist, pc, handlers_installed, config, previous_issues,
                   locals, cycles, faults, prevCyc, delivered, retryDue>>

\* a loop that tests nothing: it starts another cycle after the flag is set
loop_test_always(e) == TRUE

\* while not self.shutdown_event.is_set(): the test of the monitoring loop
loop_test(e) == ~e

\* while not self.shutdown_event.is_set(): the test fails, start() goes to its finally
LoopExit ==
    /\ pc = "loop"
    /\ ~loop_test(shutdown_event)
    /\ pc' = "finally"
    /\ UNCHANGED <<storeVars, storeHist, lifecycle, config, previous_issues, locals,
                   cycles, faults, daemonHist>>

\* while not self.shutdown_event.is_set(): the test holds, _run_check_cycle is called
BeginCycle ==
    /\ pc = "loop"
    /\ loop_test(shutdown_event)
    /\ cycles < MaxCycles
    /\ pc' = "fetch"
    /\ cycles' = cycles + 1
    /\ prevCyc' = Summary(cyc)
    /\ cyc' = [NoCycle EXCEPT !.outcome = "running", !.dueAtStart = retryDue.due,
                              !.failedAtStart = retryDue.failed]
    /\ UNCHANGED <<storeVars, storeHist, lifecycle, config, previous_issues, locals,
                   faults, delivered, retryDue, signalled>>

\* the history at the end of a cycle: which failed alerts are still to be retried
EndCycle(c) ==
    /\ cyc' = c
    /\ retryDue' = [due |-> retryDue.due,
                    failed |-> (retryDue.failed \ (IF c.outcome = "completed"
                                                   THEN c.issues ELSE {}))
                               \cup SendFailed(c)]

\* get_pool_list() and get_pool_status() return
Fetch ==
    /\ pc = "fetch"
    /\ pc' = "parse"
    /\ UNCHANGED <<storeVars, storeHist, lifecycle, config, previous_issues, locals,
                   cycles, faults, daemonHist>>

AbortedCycleContinues == "classify"

\* the position after the "return" of the two except blocks of _run_check_cycle
\* (lines 234 and 247): the cycle is over and the loop goes to its wait
AbortedCyclePc == "sleep"

\* get_pool_list() or get_pool_status() raises: logged, the cycle returns
FetchFails ==
    /\ pc = "fetch"
    /\ faults < MaxFaults
    /\ faults' = faults + 1
    /\ pc' = AbortedCyclePc
    /\ EndCycle([cyc EXCEPT !.outcome = "aborted"])
    /\ UNCHANGED <<storeVars, storeHist, lifecycle, config, previous_issues, locals,
                   cycles, prevCyc, delivered, signalled>>

\* parse_pool_list, parse_pool_status and merge_pool_data return the pools
Parse(m) ==
    /\ pc = "parse"
    /\ pools' = m
    /\ pc' = "classify"
    /\ UNCHANGED <<storeVars, storeHist, lifecycle, config, previous_issues, list_data,
                   status_data, issues, overall_severity, idx, current_issues, cycles,
                   faults, daemonHist>>

\* one of the three raises: logged, the cycle returns
ParseFails ==
    /\ pc = "parse"
    /\ faults < MaxFaults
    /\ faults' = faults + 1
    /\ pc' = AbortedCyclePc
    /\ EndCycle([cyc EXCEPT !.outcome = "aborted"])
    /\ UNCHANGED <<storeVars, storeHist, lifecycle, config, previous_issues, locals,
                   cycles, prevCyc, delivered, signalled>>

\* the whitelist filter of _run_check_cycle
FilterPools(ps, whitelist) ==
    IF whitelist # <<>>
    THEN [q \in {n \in DOMAIN ps : n \in Range(whitelist)} |-> ps[q]]
    ELSE ps

\* filter, "if not pools: return", check_all_pools, and the entry of
\* _handle_check_result
\* a cycle that goes on with an empty pool map
no_pools_never(ps) == FALSE

\* line 257: "if not pools"
no_pools(ps) == DOMAIN ps = {}

Classify ==
    /\ pc = "classify"
    /\ pools' = FilterPools(pools, pools_to_monitor)
    /\ IF no_pools(pools')
       THEN /\ pc' = "sleep"
            /\ EndCycle([cyc EXCEPT !.outcome = "empty"])
            /\ UNCHANGED <<issues, overall_severity, idx, current_issues>>
       ELSE /\ issues' = check_all_pools(monitor_config[1], pools', now)
            /\ overall_severity' = overall_severity_of(issues')
            /\ idx' = 1
            /\ current_issues' = <<>>
            /\ pc' = "handle"
            /\ cyc' = [cyc EXCEPT !.issues = IssuePairs(issues')]
            /\ UNCHANGED retryDue
    /\ UNCHANGED <<storeVars, storeHist, lifecycle, config, previous_issues, list_data,
                   status_data, cycles, faults, prevCyc, delivered, signalled>>

RecordAlways(st, success, pool_name, category, t) ==
    record_alert(st, pool_name, category, t)

\* lines 335-337: "success = send_alert(...); if success: record_alert(issue)", the
\* in-memory part
RecordIfSent(st, success, pool_name, category, t) ==
    IF success THEN record_alert(st, pool_name, category, t) ELSE st

\* one iteration of "for issue in result.issues" in _handle_check_result
HandleIssue(transport, o) ==
    /\ pc = "handle"
    /\ idx <= Len(issues)
    /\ LET issue == issues[idx]
           k == PairOf(issue)
           skip_ok == issue.severity = "OK" /\ ~send_ok_emails
           call == /\ ~skip_ok
                   /\ should_alert(states, resend_interval_hours, issue.pool_name,
                                   issue.category, now)
                   /\ issue.pool_name \in DOMAIN pools
           success == call /\ send_alert(recipients, transport)
       IN /\ current_issues' = AddIssue(current_issues, issue.pool_name, issue.category)
          /\ states' = RecordIfSent(states, success, issue.pool_name, issue.category, now)
          /\ fs' = IF success THEN save_state(fs, states', state_file, o) ELSE fs
          /\ delivered' = IF success THEN [delivered EXCEPT ![k] = Some(now)]
                          ELSE delivered
          /\ cyc' = IF call
                    THEN [cyc EXCEPT !.sends = Append(@, [pair |-> k, ok |-> success])]
                    ELSE cyc
          /\ retryDue' = IF success THEN [retryDue EXCEPT !.due = @ \ {k}]
                         ELSE IF call THEN [retryDue EXCEPT !.due = @ \cup {k}]
                         ELSE retryDue
    /\ idx' = idx + 1
    /\ UNCHANGED <<state_file, resend_interval_hours, now, storeHist, pc, lifecycle,
                   config, previous_issues, list_data, status_data, pools, issues,
                   overall_severity, cycles, faults, prevCyc, signalled>>

\* the end of _handle_check_result: self.previous_issues = current_issues
FinishHandle ==
    /\ pc = "handle"
    /\ idx > Len(issues)
    /\ previous_issues' = current_issues
    /\ pc' = "detect"
    /\ UNCHANGED <<storeVars, storeHist, lifecycle, config, locals, cycles, faults,
                   daemonHist>>

\* the pairs _detect_recoveries handles: none when send_recovery_emails is off
ResolvedNow ==
    IF send_recovery_emails THEN Resolved(previous_issues, issues) ELSE {}

\* _detect_recoveries(result), after which the cycle is complete.  transport gives
\* what the SMTP transport does for each resolved pair, outs what each save does, and
\* order is the order in which the dict and the sets are iterated.
DetectRecoveries(transport, outs, order) ==
    /\ pc = "detect"
    /\ LET resolved == ResolvedNow
           sent == {k \in resolved :
                      send_recovery(send_recovery_emails, recipients, transport[k])}
       IN /\ order \in OrdersOf(resolved)
          /\ DOMAIN transport = resolved
          /\ DOMAIN outs = resolved
          /\ LET after == ClearResolved(states, fs, state_file, order, sent, outs)
             IN /\ states' = after.states
                /\ fs' = after.fs
                /\ delivered' = [k \in Pairs |-> IF k \in sent THEN None ELSE delivered[k]]
                /\ EndCycle([cyc EXCEPT
                       !.outcome = "completed",
                       !.recoveryCalls = order,
                       !.recoveryFailed = resolved \ sent,
                       !.alertedPresent = {k \in cyc.issues : delivered[k] # None},
                       !.fresh = IF prevCyc.outcome = "completed"
                                 THEN (prevCyc.alertedPresent \ cyc.issues)
                                      \ (resolved \ sent)
                                 ELSE {}])
    /\ pc' = "sleep"
    /\ UNCHANGED <<state_file, resend_interval_hours, now, storeHist, lifecycle, config,
                   previous_issues, locals, cycles, faults, prevCyc, signalled>>

AfterUncaughtException == "finally"

\* the position the worker is at after an exception left _run_check_cycle:
\* "except Exception" in _run_monitoring_loop logs it and falls through to the wait
AfterCycleException == "sleep"

\* an exception raised by check_all_pools, _handle_check_result or _detect_recoveries
CycleRaises ==
    /\ pc \in {"classify", "handle", "detect"}
    /\ faults < MaxFaults
    /\ faults' = faults + 1
    /\ pc' = AfterCycleException
    /\ EndCycle([cyc EXCEPT !.outcome = "raised"])
    /\ UNCHANGED <<storeVars, storeHist, lifecycle, config, previous_issues, locals,
                   cycles, prevCyc, delivered, signalled>>

\* self.shutdown_event.wait(timeout=self.check_interval) returns: the flag is set or
\* the interval has passed
Wait ==
    /\ pc = "sleep"
    /\ pc' = "loop"
    /\ UNCHANGED <<storeVars, storeHist, lifecycle, config, previous_issues, locals,
                   cycles, faults, daemonHist>>

\* start()'s "finally: self.stop()", after which start() returns
Finally ==
    /\ pc = "finally"
    /\ running' = stop_running(running)
    /\ shutdown_event' = stop_event(running, shutdown_event)
    /\ pc' = "returned"
    /\ UNCHANGED <<storeVars, storeHist, handlers_installed, handler_log, config,
                   previous_issues, locals, cycles, faults, daemonHist>>

\* the clock advances by one tick: between two cycles, or once inside a cycle between
\* the handling of two issues (a tick before the first issue's should_alert or after
\* the last one's record_alert acts as a tick before or after the cycle)
Tick ==
    /\ now < MaxTime
    /\ \/ pc = "sleep"
       \/ pc = "handle" /\ 1 < idx /\ idx <= Len(issues) /\ ~cyc.ticked
    /\ now' = now + 1
    /\ cyc' = IF pc \in CyclePcs THEN [cyc EXCEPT !.ticked = TRUE] ELSE cyc
    /\ UNCHANGED <<states, state_file, resend_interval_hours, fs, storeHist, daemonVars,
                   prevCyc, delivered, retryDue, signalled>>

\* The alert lifecycle: the cycles of a daemon that is not told to stop.
Next ==
    \/ SetupSignalHandlers
    \/ SetRunning
    \/ BeginCycle
    \/ Fetch
    \/ FetchFails
    \/ \E m \in PoolMaps : Parse(m)
    \/ ParseFails
    \/ Classify
    \/ \E transport \in TransportOutcomes, o \in DaemonSaveOutcomes : HandleIssue(transport, o)
    \/ FinishHandle
    \/ \E transport \in [ResolvedNow -> TransportOutcomes],
          outs \in [ResolvedNow -> DaemonSaveOutcomes],
          order \in OrdersOf(ResolvedNow) :
            DetectRecoveries(transport, outs, order)
    \/ CycleRaises
    \/ Wait
    \/ Tick

Init == DaemonInit

Spec == Init /\ [][Next]_vars

\* Start-up and shutdown: the same daemon with SIGTERM/SIGINT delivered at any point
\* after the handlers are installed.
ShutdownInit ==
    /\ DaemonInit
    /\ resend_interval_hours = 1
    /\ ~fs[state_file].exists

ShutdownNext ==
    \/ SetupSignalHandlers
    \/ SetRunning
    \/ SignalHandler
    \/ LoopExit
    \/ BeginCycle
    \/ Fetch
    \/ FetchFails
    \/ \E m \in ShutdownPoolMaps : Parse(m)
    \/ ParseFails
    \/ Classify
    \/ \E transport \in TransportOutcomes, o \in DaemonSaveOutcomes : HandleIssue(transport, o)
    \/ FinishHandle
    \/ \E transport \in [ResolvedNow -> TransportOutcomes],
          outs \in [ResolvedNow -> DaemonSaveOutcomes],
          order \in OrdersOf(ResolvedNow) :
            DetectRecoveries(transport, outs, order)
    \/ CycleRaises
    \/ Wait
    \/ Finally
    \/ Tick

ShutdownSpec == ShutdownInit /\ [][ShutdownNext]_vars

\* The same daemon with its one thread kept running: a step that can be taken is taken.
ShutdownFairSpec == ShutdownSpec /\ WF_vars(ShutdownNext)

(***************************************************************************)
(* monitor.py on its own: a MonitorConfig is constructed from any values,  *)
(* and a PoolMonitor with it classifies one set of pools.  The pools sit   *)
(* on and next to the thresholds; the clock stands two days after the      *)
(* earliest scrub.                                                         *)
(***************************************************************************)
Day == HoursPerDay * TicksPerHour

ConfigChoices ==
    {MonitorConfig(cw, cc, sd, re, write_errors_warning, ce) :
        cw \in {-1, capacity_warning_percent},
        cc \in {capacity_warning_percent, capacity_critical_percent, 101},
        sd \in {-1, 0, 1},
        re \in {-1, 0, 1, 2},
        ce \in {0, 1}}

RpoolChoices ==
    {PoolStatus("rpool", health, capacity_percent, 2, 1, 1, read_errors, 0, checksum_errors, last_scrub, scrub_errors, FALSE) :
        health \in {"ONLINE", "DEGRADED", "FAULTED"},
        capacity_percent \in {capacity_warning_percent - 1, capacity_warning_percent,
                              capacity_critical_percent - 1, capacity_critical_percent},
        read_errors \in {0, 1, 2},
        checksum_errors \in {0, 1},
        last_scrub \in {None, Some(0), Some(1), Some(Day)},
        scrub_errors \in {0, 1}}

MonitorPoolMaps ==
    {<<>>}
    \cup {[q \in {"rpool"} |-> r] : r \in RpoolChoices}
    \cup {[q \in {"rpool", "tank"} |->
              IF q = "rpool" THEN r ELSE Tank(capacity_warning_percent)] : r \in RpoolChoices}

MonitorInit ==
    /\ state_file = DefaultStateFile
    /\ resend_interval_hours = 1
    /\ fs = [p \in AllPaths |-> NoFile]
    /\ now = 2 * Day
    /\ states = <<>>
    /\ lastOp = Op("none", "", "", TRUE, <<>>)
    /\ saved = <<>>
    /\ lostWrite = FALSE
    /\ ops = 0
    /\ send_recovery_emails = TRUE
    /\ recipients = alert_recipients
    /\ pools_to_monitor = <<>>
    /\ monitor_config = None
    /\ DaemonConstructed
    /\ DaemonHistInit

\* PoolMonitor(MonitorConfig(...)): when __post_init__ raises there is no monitor
NewMonitor(cfg) ==
    /\ monitor_config = None
    /\ lastOp.op = "none"
    /\ monitor_config' = IF post_init_raises(cfg) THEN None ELSE Some(cfg)
    /\ lastOp' = Op("MonitorConfig", "", "", ~post_init_raises(cfg), <<>>)
    /\ UNCHANGED <<storeVars, saved, lostWrite, ops, pc, lifecycle, send_recovery_emails,
                   recipients, pools_to_monitor, previous_issues, locals, cycles, faults,
                   daemonHist>>

\* monitor.check_all_pools(pools)
CheckAllPools(ps) ==
    /\ monitor_config # None
    /\ lastOp.op = "MonitorConfig"
    /\ pools' = ps
    /\ issues' = check_all_pools(monitor_config[1], ps, now)
    /\ overall_severity' = overall_severity_of(issues')
    /\ lastOp' = Op("check_all_pools", "", "",
                    get_exit_code_for_severity(overall_severity'), <<>>)
    /\ UNCHANGED <<storeVars, saved, lostWrite, ops, pc, lifecycle, config, previous_issues,
                   list_data, status_data, idx, current_issues, cycles, faults, daemonHist>>

MonitorNext ==
    \/ \E cfg \in ConfigChoices : NewMonitor(cfg)
    \/ \E ps \in MonitorPoolMaps : CheckAllPools(ps)

MonitorSpec == MonitorInit /\ [][MonitorNext]_vars

(***************************************************************************)
(* One check cycle from the output of the two zpool commands: what         *)
(* get_pool_list and get_pool_status return is any combination of entries  *)
(* that parse, entries with values that are no numbers, and a scan block   *)
(* that is no object.                                                      *)
(***************************************************************************)
Num(n) == JsonString(<<n>>)

ListEntry(health, capacity, size) ==
    [health |-> health, capacity |-> capacity, size |-> size,
     allocated |-> Num(1), free |-> Num(1)]

RpoolListEntries ==
    {ListEntry(health, capacity, size) :
        health \in {"ONLINE", "DEGRADED"},
        capacity \in {Num(50), Num(capacity_warning_percent + 5)},
        size \in {Num(2), JsonString(<<>>)}}

ListOutputs ==
    {<<>>}
    \cup {[q \in {"rpool"} |-> e] : e \in RpoolListEntries}
    \cup {[q \in {"rpool", "tank"} |->
             IF q = "rpool" THEN e ELSE ListEntry("ONLINE", Num(50), Num(2))] :
          e \in RpoolListEntries}

Counters(read_errors, write_errors, checksum_errors) ==
    [present |-> TRUE, read_errors |-> read_errors, write_errors |-> write_errors,
     checksum_errors |-> checksum_errors]

NoCounters == [Counters(JsonNumber(0), JsonNumber(0), JsonNumber(0)) EXCEPT !.present = FALSE]

CounterSources ==
    {NoCounters,
     Counters(JsonNumber(0), JsonNumber(0), JsonNumber(0)),
     Counters(JsonNumber(1), JsonNumber(0), JsonNumber(2)),
     Counters(JsonNumber(2), JsonString(<<>>), JsonNumber(0)),
     Counters(JsonNull, JsonNumber(1), JsonNumber(1)),
     Counters(JsonNumber(1), JsonNumber(1), JsonString(<<>>))}

Scan(kind, end_time, errors) ==
    [kind |-> kind, end_time |-> end_time, errors |-> errors, state |-> "FINISHED"]

Scans ==
    {Scan("absent", JsonNull, JsonNumber(0)),
     Scan("dict", JsonNumber(0), JsonNumber(0)),
     Scan("dict", JsonNull, JsonString(<<1>>)),
     Scan("malformed", JsonNull, JsonNumber(0))}

StatusEntry(state, vdevs, vdev_tree, scan) ==
    [state |-> state, vdevs |-> vdevs, vdev_tree |-> vdev_tree, scan |-> scan]

RpoolStatusEntries ==
    {StatusEntry(state, vdevs, vdev_tree, scan) :
        state \in {"ONLINE", "SUSPENDED"},
        vdevs \in CounterSources, vdev_tree \in CounterSources, scan \in Scans}

StatusOutputs ==
    {<<>>}
    \cup {[q \in {"rpool"} |-> e] : e \in RpoolStatusEntries}
    \cup {[q \in {"rpool", "tank"} |->
             IF q = "rpool" THEN e
             ELSE StatusEntry("ONLINE", Counters(JsonNumber(0), JsonNumber(0), JsonNumber(0)),
                              NoCounters, Scan("dict", JsonNumber(0), JsonNumber(0)))] :
          e \in RpoolStatusEntries}

ParseInit ==
    /\ state_file = DefaultStateFile
    /\ resend_interval_hours = 1
    /\ fs = [p \in AllPaths |-> NoFile]
    /\ now = 0
    /\ states = <<>>
    /\ lastOp = Op("init", "", "", TRUE, <<>>)
    /\ saved = <<>>
    /\ lostWrite = FALSE
    /\ ops = 0
    /\ send_recovery_emails = TRUE
    /\ recipients = alert_recipients
    /\ pools_to_monitor = <<>>
    /\ monitor_config = Some(DefaultMonitorConfig)
    /\ DaemonConstructed
    /\ DaemonHistInit

\* _run_check_cycle is entered and get_pool_list() and get_pool_status() return
FetchOutputs(l, s) ==
    /\ pc = "init"
    /\ list_data' = l
    /\ status_data' = s
    /\ pc' = "parse"
    /\ cycles' = cycles + 1
    /\ cyc' = [NoCycle EXCEPT !.outcome = "running"]
    /\ UNCHANGED <<storeVars, storeHist, lifecycle, config, previous_issues, pools, issues,
                   overall_severity, idx, current_issues, faults, prevCyc, delivered,
                   retryDue, signalled>>

\* parse_pool_list, parse_pool_status and merge_pool_data
ParseOutputs ==
    /\ pc = "parse"
    /\ pools' = merge_pool_data(parse_pool_list(list_data), parse_pool_status(status_data))
    /\ pc' = "classify"
    /\ UNCHANGED <<storeVars, storeHist, lifecycle, config, previous_issues, list_data,
                   status_data, issues, overall_severity, idx, current_issues, cycles,
                   faults, daemonHist>>

ParseNext ==
    \/ \E l \in ListOutputs, s \in StatusOutputs : FetchOutputs(l, s)
    \/ ParseOutputs
    \/ Classify
    \/ \E o \in DaemonSaveOutcomes : HandleIssue("sent", o)
    \/ FinishHandle
    \/ \E transport \in [ResolvedNow -> TransportOutcomes],
          outs \in [ResolvedNow -> DaemonSaveOutcomes],
          order \in OrdersOf(ResolvedNow) :
            DetectRecoveries(transport, outs, order)

ParseSpec == ParseInit /\ [][ParseNext]_vars

(***************************************************************************)
(* alerting.py on its own: an EmailAlerter with or without recipients and  *)
(* with recovery e-mails on or off is asked to send alerts and recovery    *)
(* notices, the transport succeeding, refusing or raising.                 *)
(***************************************************************************)
AlertInit ==
    /\ state_file = DefaultStateFile
    /\ resend_interval_hours = 1
    /\ fs = [p \in AllPaths |-> NoFile]
    /\ now = 0
    /\ states = <<>>
    /\ lastOp = Op("none", "", "", FALSE, [transport |-> "sent", call |-> NotSent])
    /\ saved = <<>>
    /\ lostWrite = FALSE
    /\ ops = 0
    /\ send_recovery_emails \in BOOLEAN
    /\ recipients \in {{}, alert_recipients}
    /\ pools_to_monitor = <<>>
    /\ monitor_config = Some(DefaultMonitorConfig)
    /\ DaemonConstructed
    /\ DaemonHistInit

\* alerter.send_alert(issue, pool)
SendAlert(k, transport) ==
    /\ lastOp' = Op("send_alert", k[1], k[2], send_alert(recipients, transport),
                    [transport |-> transport,
                     call |-> send_alert_call(recipients, transport)])
    /\ UNCHANGED <<storeVars, saved, lostWrite, ops, daemonVars, daemonHist>>

\* alerter.send_recovery(pool_name, category, pool)
SendRecovery(k, transport) ==
    /\ lastOp' = Op("send_recovery", k[1], k[2],
                    send_recovery(send_recovery_emails, recipients, transport),
                    [transport |-> transport,
                     call |-> send_recovery_call(send_recovery_emails, recipients,
                                                 transport)])
    /\ UNCHANGED <<storeVars, saved, lostWrite, ops, daemonVars, daemonHist>>

AlertNext ==
    \/ \E k \in Pairs, transport \in TransportOutcomes : SendAlert(k, transport)
    \/ \E k \in Pairs, transport \in TransportOutcomes : SendRecovery(k, transport)

AlertSpec == AlertInit /\ [][AlertNext]_vars

(***************************************************************************)
(* Properties.                                                             *)
(***************************************************************************)

\* C1: with send_recovery_emails true, when two complete check cycles run one after
\* the other, the second calls send_recovery exactly once for every (pool, category)
\* that is in the first cycle's issues and absent from the second's, and a call that
\* returned true is followed by clear_issue, so the pair's row is deleted.
C1_RecoveryPerResolvedPair ==
    (cyc.outcome = "completed" /\ prevCyc.outcome = "completed" /\ send_recovery_emails)
    => \A k \in prevCyc.issues \ cyc.issues :
          /\ Occurrences(cyc.recoveryCalls, k) = 1
          /\ k \notin cyc.recoveryFailed => KeyOfPair(k) \notin DOMAIN states

\* a send_alert call has just returned for pair k with the value ok
SendStep(k, ok) ==
    /\ Len(cyc'.sends) = Len(cyc.sends) + 1
    /\ cyc'.sends[Len(cyc'.sends)] = [pair |-> k, ok |-> ok]

\* C2: with a positive resend interval and no clear_issue in between, two alerts
\* delivered for the same (pool, category) are at least resend_interval_hours apart;
\* a cycle whose result holds several issues of one pair delivers at most one alert
\* for it (a second one would come zero hours after the first).
C2_MinimumGapBetweenAlerts ==
    [][\A k \in Pairs :
         (resend_interval_hours > 0 /\ SendStep(k, TRUE) /\ delivered[k] # None)
         => now' - delivered[k][1] >= timedelta_hours(resend_interval_hours)]_vars

C2_Witness ==
    \E k \in Pairs :
       /\ resend_interval_hours > 0
       /\ pc = "detect"
       /\ Cardinality({i \in DOMAIN issues : PairOf(issues[i]) = k}) >= 2
       /\ Cardinality({i \in DOMAIN cyc.sends : cyc.sends[i] = [pair |-> k, ok |-> TRUE]}) = 1
       /\ KeyOfPair(k) \in DOMAIN states
       /\ states[KeyOfPair(k)].alert_count = 2
       /\ states[KeyOfPair(k)].last_alerted[1] - states[KeyOfPair(k)].first_seen
            >= timedelta_hours(resend_interval_hours)

\* what should_alert is to return for the pair of the last call, from the rows and the
\* clock the call saw
CharacterisedResult ==
    LET key == _make_key(lastOp.pool, lastOp.category)
        st == lastOp.before
    IN \/ key \notin DOMAIN st
       \/ st[key].last_alerted = None
       \/ lastOp.at - st[key].last_alerted[1] >= timedelta_hours(resend_interval_hours)

\* the last should_alert call came directly after record_alert for its pair (no time
\* has passed since the row's last_alerted)
DirectlyAfterRecord ==
    LET key == _make_key(lastOp.pool, lastOp.category)
        st == lastOp.before
    IN /\ key \in DOMAIN st
       /\ st[key].last_alerted = Some(lastOp.at)

\* C3: should_alert returns true exactly when no row exists for the pair, or the row's
\* last_alerted is null, or the time since last_alerted is at least the resend
\* interval (equal counts); so, for a positive interval, it returns false directly
\* after record_alert for the pair.
C3_ShouldAlertPolicy ==
    lastOp.op = "should_alert"
    => /\ lastOp.result = CharacterisedResult
       /\ (resend_interval_hours > 0 /\ DirectlyAfterRecord) => ~lastOp.result

\* C3 as stated: the same with no condition on the interval.
C3_AsStated ==
    lastOp.op = "should_alert"
    => /\ lastOp.result = CharacterisedResult
       /\ DirectlyAfterRecord => ~lastOp.result

C3_Witness ==
    /\ lastOp.op = "should_alert"
    /\ resend_interval_hours > 0
    /\ _make_key(lastOp.pool, lastOp.category) \in DOMAIN lastOp.before
    /\ lastOp.at - lastOp.before[_make_key(lastOp.pool, lastOp.category)].last_alerted[1]
         = timedelta_hours(resend_interval_hours)
    /\ lastOp.result

\* C4: an alert for a pair was delivered and recorded, the issue is absent from a
\* later completed cycle (recovery e-mails enabled, none failing), and present again in
\* the next cycle: that cycle calls send_alert for it, whatever time has passed.
C4_ReappearanceAlertsAtOnce ==
    (cyc.outcome = "completed" /\ prevCyc.outcome = "completed" /\ send_recovery_emails)
    => \A k \in prevCyc.fresh \cap cyc.issues : k \in SendCalled(cyc)

\* C5: a send_alert call that returns false leaves the rows and the state file as they
\* were, and the next completed cycle in which the pair is present calls send_alert
\* for it again, unless an alert for the pair was delivered in the meantime.
C5_FailedSendIsRetried ==
    [][/\ \A k \in Pairs : SendStep(k, FALSE) => (states' = states /\ fs' = fs)
       /\ cyc'.outcome = "completed"
          => \A k \in cyc'.dueAtStart \cap cyc'.issues : k \in SendCalled(cyc')]_vars

\* C5 as stated: the retry happens whether or not an alert was delivered in between.
C5_AsStated ==
    [][/\ \A k \in Pairs : SendStep(k, FALSE) => (states' = states /\ fs' = fs)
       /\ cyc'.outcome = "completed"
          => \A k \in cyc'.failedAtStart \cap cyc'.issues : k \in SendCalled(cyc')]_vars

C5_Witness ==
    /\ cyc.outcome = "completed"
    /\ \E k \in cyc.dueAtStart \cap cyc.issues : k \in SendOk(cyc)

\* C6: a manager constructed on the state file after any sequence of record_alert and
\* clear_issue calls holds exactly the rows the earlier manager held at its last
\* successful write.
C6_RestartRestoresLastSaved ==
    lastOp.op = "restart" => states = lastOp.before

\* C7: at every point of a save, failures included, the state file holds a complete
\* document: the one last saved or the new one, never a partial one.
C7_StateFileAlwaysWhole ==
    fs[state_file].exists => fs[state_file] = WholeFile(DocumentOf(saved))

\* C8: an exception raised inside a check cycle never ends the loop: the worker goes
\* to the wait, from there to the loop test, and, unless shutdown has been requested,
\* into another cycle.
C8_ExceptionNeverEndsLoop ==
    [][/\ (cyc'.outcome = "raised" /\ cyc.outcome # "raised") => pc' = "sleep"
       /\ (cyc.outcome = "raised" /\ pc = "sleep") => pc' \in {"sleep", "loop"}
       /\ (cyc.outcome = "raised" /\ pc = "loop" /\ ~shutdown_event)
          => pc' \in {"loop", "fetch"}]_vars

C8_Witness ==
    /\ prevCyc.outcome = "raised"
    /\ cyc.outcome = "completed"
    /\ ~shutdown_event

C10_SignalRequestsShutdown ==
    signalled => shutdown_event

\* a step in which stop() runs: the first signal handled, or start()'s finally
StopRuns ==
    \/ signalled' /\ ~signalled
    \/ pc = "finally" /\ pc' = "returned"

\* C11: stop() sets the shutdown flag and leaves running false whenever it is called,
\* whatever state the daemon is in.
C11_StopSetsFlagAlways ==
    [][StopRuns => (shutdown_event' /\ ~running')]_vars

\* C12: once the shutdown flag is set, the cycle in progress is not cancelled: it goes on
\* through alert dispatch and recovery detection to its end, and no further cycle starts.
C12_CycleInProgressFinishes ==
    /\ [][shutdown_event => cycles' = cycles]_vars
    /\ [][(shutdown_event /\ pc \in CyclePcs) => pc' \in CyclePcs \cup {"sleep"}]_vars
    /\ (shutdown_event /\ cyc.outcome = "running") ~> (cyc.outcome # "running")
    /\ (shutdown_event /\ pc \in CyclePcs) ~> (pc = "returned")

C12_Witness ==
    /\ pc = "returned"
    /\ cyc.outcome = "completed"
    /\ cyc.sendsAtSignal # None
    /\ Len(cyc.sends) > cyc.sendsAtSignal[1]

\* an entry as save_state writes them: the five fields, first_seen a timestamp and
\* last_alerted a timestamp or null
WellFormed(entry) ==
    /\ DOMAIN entry = {"pool_name", "issue_category", "first_seen", "last_alerted", "alert_count"}
    /\ entry.first_seen.type = "string" /\ parses(entry.first_seen.v)
    /\ \/ entry.last_alerted.type = "null"
       \/ entry.last_alerted.type = "string" /\ parses(entry.last_alerted.v)

\* C13: constructing the manager never fails because of the file's content: a missing,
\* undecodable or unknown-version file gives the empty map, a malformed entry is skipped
\* and its well-formed siblings are loaded.
C13_ConstructionNeverFails ==
    lastOp.op = "init" =>
        /\ lastOp.result
        /\ LET alerts == entries_read(fs, state_file)
           IN states = [k \in {j \in DOMAIN alerts : WellFormed(alerts[j])} |->
                          StateOf(alerts[k])]

\* a step of record_alert or clear_issue that called save_state
WriteStep ==
    /\ ops' = ops + 1
    /\ \/ lastOp'.op = "record_alert"
       \/ lastOp'.op = "clear_issue" /\ lastOp'.result

\* C14: a failed write during record_alert or clear_issue keeps the in-memory change and
\* leaves the state file with its previous content, and the next successful write stores
\* the complete in-memory state.
C14_FailedWriteKeepsFile ==
    [][/\ (WriteStep /\ lostWrite') =>
            /\ states' = IF lastOp'.op = "record_alert"
                         THEN record_alert(states, lastOp'.pool, lastOp'.category, now)
                         ELSE clear_issue(states, lastOp'.pool, lastOp'.category)
            /\ fs'[state_file] = fs[state_file]
       /\ (WriteStep /\ ~lostWrite') => fs'[state_file] = WholeFile(DocumentOf(states'))]_vars

\* C15: every row has first_seen <= last_alerted <= now and alert_count >= 1, and
\* record_alert on an existing row keeps first_seen and raises alert_count by exactly one.
C15_RowInvariant ==
    /\ [](\A k \in DOMAIN states :
            /\ states[k].last_alerted # None
            /\ states[k].first_seen <= states[k].last_alerted[1]
            /\ states[k].last_alerted[1] <= now
            /\ states[k].alert_count >= 1)
    /\ [][(lastOp'.op = "record_alert" /\ ops' = ops + 1) =>
            LET key == _make_key(lastOp'.pool, lastOp'.category) IN
            key \in DOMAIN states =>
               /\ states'[key].first_seen = states[key].first_seen
               /\ states'[key].alert_count = states[key].alert_count + 1
               /\ states'[key].last_alerted = Some(now)]_vars

C15_Witness ==
    /\ lastOp.op = "record_alert"
    /\ LET key == _make_key(lastOp.pool, lastOp.category) IN
       /\ key \in DOMAIN lastOp.before
       /\ states[key].alert_count = 2
       /\ states[key].first_seen < states[key].last_alerted[1]
       /\ states[key].last_alerted[1] = now

\* the issues of one pool in one category, and those among them with one message
IssuesOf(pool_name, category) ==
    SelectSeq(issues, LAMBDA i : i.pool_name = pool_name /\ i.category = category)

ErrorIssues(pool_name, message) ==
    SelectSeq(issues, LAMBDA i : i.pool_name = pool_name /\ i.category = "errors"
                                 /\ i.message = message)

Checked == lastOp.op = "check_all_pools"

\* C16: overall_severity is OK if and only if the issue list is empty and is otherwise
\* the greatest severity of the issues under OK < INFO < WARNING < CRITICAL; no issue
\* has severity OK.
C16_OverallSeverityIsMaximum ==
    Checked =>
        /\ (overall_severity = "OK") <=> (issues = <<>>)
        /\ issues # <<>> =>
             /\ \E i \in DOMAIN issues : issues[i].severity = overall_severity
             /\ \A i \in DOMAIN issues :
                  SeverityRank(issues[i].severity) <= SeverityRank(overall_severity)
        /\ \A i \in DOMAIN issues : issues[i].severity \in Severities \ {"OK"}

C16_Witness ==
    /\ Checked
    /\ Len(issues) >= 3
    /\ Head(issues).severity = "WARNING"
    /\ issues[Len(issues)].severity = "INFO"
    /\ overall_severity = "CRITICAL"

\* C17: a pool gets exactly one capacity issue, CRITICAL, when capacity_percent >=
\* capacity_critical_percent, exactly one, WARNING, when capacity_warning_percent <=
\* capacity_percent < capacity_critical_percent, and none below the warning threshold.
C17_CapacityThresholdsInclusive ==
    Checked =>
        \A q \in DOMAIN pools :
            LET cfg == monitor_config[1]
                found == IssuesOf(q, "capacity")
            IN IF pools[q].capacity_percent >= cfg.capacity_critical_percent
               THEN Len(found) = 1 /\ found[1].severity = "CRITICAL"
               ELSE IF pools[q].capacity_percent >= cfg.capacity_warning_percent
               THEN Len(found) = 1 /\ found[1].severity = "WARNING"
               ELSE found = <<>>

C17_Witness ==
    /\ Checked
    /\ DOMAIN pools = {"rpool", "tank"}
    /\ pools["rpool"].capacity_percent = monitor_config[1].capacity_critical_percent
    /\ pools["tank"].capacity_percent = monitor_config[1].capacity_warning_percent
    /\ IssuesOf("rpool", "capacity")[1].severity = "CRITICAL"
    /\ IssuesOf("tank", "capacity")[1].severity = "WARNING"

C20_ConfigValidated ==
    monitor_config # None =>
        LET cfg == monitor_config[1] IN
        /\ cfg.capacity_warning_percent < cfg.capacity_critical_percent
        /\ cfg.capacity_warning_percent \in 0..100
        /\ cfg.capacity_critical_percent \in 0..100
        /\ cfg.scrub_max_age_days >= 0
        /\ cfg.read_errors_warning >= 0
        /\ cfg.write_errors_warning >= 0
        /\ cfg.checksum_errors_warning >= 0

\* the two maps merge_pool_data is called with in the cycle in progress
FromList == parse_pool_list(list_data)
FromStatus == parse_pool_status(status_data)

\* C21: the keys of the merged map are those of both inputs; for a pool in both,
\* capacity_percent and the byte fields are the list entry's and health, the error
\* counters and the scrub fields the status entry's; a pool in one input only is
\* returned unchanged.
C21_MergeTakesEachFieldFromItsSource ==
    pc = "classify" =>
        /\ DOMAIN pools = DOMAIN FromList \cup DOMAIN FromStatus
        /\ \A q \in DOMAIN FromList \cap DOMAIN FromStatus :
             /\ \A f \in {"capacity_percent", "size_bytes", "allocated_bytes", "free_bytes"} :
                  pools[q][f] = FromList[q][f]
             /\ \A f \in {"health", "read_errors", "write_errors", "checksum_errors",
                          "last_scrub", "scrub_errors", "scrub_in_progress"} :
                  pools[q][f] = FromStatus[q][f]
             /\ pools[q].name = q
        /\ \A q \in DOMAIN FromList \ DOMAIN FromStatus : pools[q] = FromList[q]
        /\ \A q \in DOMAIN FromStatus \ DOMAIN FromList : pools[q] = FromStatus[q]

C21_Witness ==
    /\ pc = "classify"
    /\ DOMAIN FromList = {"rpool", "tank"}
    /\ DOMAIN FromStatus = {"rpool"}
    /\ FromList["rpool"].health = "DEGRADED"
    /\ pools["rpool"].health = "OFFLINE"
    /\ pools["rpool"].capacity_percent = capacity_warning_percent + 5
    /\ pools["rpool"].read_errors = 1
    /\ pools["tank"] = FromList["tank"]

\* C22: a pool whose entry in the zpool status output cannot be parsed is skipped in
\* that cycle: it is not among the pools classified and contributes no issue, while the
\* other pools are classified and the cycle completes.
C22_UnparsablePoolIsSkipped ==
    (pc \in {"handle", "detect"} \/ cyc.outcome = "completed") =>
        \A q \in DOMAIN status_data :
            scrub_info_raises(status_data[q]) =>
                /\ q \notin DOMAIN pools
                /\ \A i \in DOMAIN issues : issues[i].pool_name # q


\* C23: send_alert and send_recovery never let an exception out; they return
\* TRUE exactly when the transport was called and reported success, FALSE when
\* it raised or refused; and they return FALSE without calling the transport
\* when there are no recipients or, for send_recovery, when recovery e-mails
\* are switched off.
Blocked ==
    \/ recipients = {}
    \/ lastOp.op = "send_recovery" /\ ~send_recovery_emails

C23_SendNeverRaises ==
    lastOp.op \in {"send_alert", "send_recovery"} =>
        /\ ~lastOp.before.call.raised
        /\ lastOp.result = (lastOp.before.call.called /\ lastOp.before.transport = "sent")
        /\ lastOp.before.call.called = ~Blocked
        /\ Blocked => ~lastOp.result

C23_Witness ==
    /\ lastOp.op = "send_recovery"
    /\ ~Blocked
    /\ lastOp.before.transport = "raises"
    /\ ~lastOp.result

\* C24: the exit code of the one-shot check depends on the aggregate severity
\* alone: 0 for OK and INFO, 1 for WARNING, 2 for CRITICAL; and a greater
\* severity never has a smaller exit code.
C24_ExitCodeFollowsSeverity ==
    /\ lastOp.op = "check_all_pools" =>
           /\ overall_severity \in {"OK", "INFO"} => lastOp.result = 0
           /\ overall_severity = "WARNING" => lastOp.result = 1
           /\ overall_severity = "CRITICAL" => lastOp.result = 2
           /\ overall_severity \in Severities
    /\ \A s, t \in Severities :
           SeverityRank(s) <= SeverityRank(t) =>
               get_exit_code_for_severity(s) <= get_exit_code_for_severity(t)

C24_Witness ==
    /\ lastOp.op = "check_all_pools"
    /\ overall_severity = "INFO"
    /\ issues # <<>>
    /\ lastOp.result = 0

\* the (pool, category) pairs of a {pool -> categories} snapshot
SnapshotPairs(m) == {k \in Pairs : k[1] \in DOMAIN m /\ k[2] \in m[k[1]]}

\* C25: a cycle dispatches its alerts, then detects recoveries, then replaces the
\* previous-cycle snapshot: when recovery detection reads previous_issues, it holds
\* the issue set of the immediately preceding completed cycle, not that of the
\* cycle in progress.
C25_RecoveryReadsPrecedingCycle ==
    (pc = "detect" /\ prevCyc.outcome = "completed") =>
        SnapshotPairs(previous_issues) = prevCyc.issues

\* the alert_count of the row of pair k, 0 when there is no row
CountOf(st, k) == IF KeyOfPair(k) \in DOMAIN st THEN st[KeyOfPair(k)].alert_count ELSE 0

\* C26: over any sequence of cycles a row is created or updated only in the step in
\* which send_alert returned true for its pair, and that step raises its alert_count
\* by exactly one and sets last_alerted; every other step (an alert suppressed,
\* skipped or failed, or no alert at all) leaves an existing row as it was and
\* creates none.  So a row exists only after a delivery and its alert_count counts
\* the deliveries since it was created.
C26_RowsFollowDeliveries ==
    [][\A k \in Pairs :
         IF SendStep(k, TRUE)
         THEN /\ KeyOfPair(k) \in DOMAIN states'
              /\ CountOf(states', k) = CountOf(states, k) + 1
              /\ states'[KeyOfPair(k)].last_alerted = Some(now)
         ELSE KeyOfPair(k) \in DOMAIN states' =>
                 /\ KeyOfPair(k) \in DOMAIN states
                 /\ states'[KeyOfPair(k)] = states[KeyOfPair(k)]]_vars

C26_Witness ==
    /\ pc = "handle"
    /\ \E i \in DOMAIN cyc.sends :
          /\ cyc.sends[i].ok
          /\ CountOf(states, cyc.sends[i].pair) = 2
    /\ \E i \in DOMAIN cyc.sends : ~cyc.sends[i].ok

\* C27: the signal handler, wherever the worker is when it runs, only sets the
\* shutdown flag and wakes the sleeper: it writes nothing (no I/O) and neither the
\* alert-state store nor the previous-cycle snapshot changes in its step.
C27_HandlerOnlySetsFlag ==
    [][(signalled' /\ ~signalled) =>
          /\ handler_log' = handler_log
          /\ UNCHANGED <<states, fs, previous_issues>>]_vars

\* a counter source that is present and whose three counters int() accepts
AllParse(source) ==
    /\ source.present
    /\ int_error(source.read_errors) = "none"
    /\ int_error(source.write_errors) = "none"
    /\ int_error(source.checksum_errors) = "none"

CountersOf(source) ==
    [read |-> int_of(source.read_errors), write |-> int_of(source.write_errors),
     checksum |-> int_of(source.checksum_errors)]

\* C28: the counters of a parsed status entry are those of its vdevs root entry when
\* that is present and parses as a whole, else those of vdev_tree.stats when that is
\* present and parses as a whole, else three zeros: nothing read from a source whose
\* parsing failed is in the result.
C28_CountersFromOneSource ==
    pc = "classify" =>
        \A q \in DOMAIN FromStatus :
            LET entry == status_data[q]
                got == [read |-> FromStatus[q].read_errors,
                        write |-> FromStatus[q].write_errors,
                        checksum |-> FromStatus[q].checksum_errors]
            IN got = IF AllParse(entry.vdevs) THEN CountersOf(entry.vdevs)
                     ELSE IF AllParse(entry.vdev_tree) THEN CountersOf(entry.vdev_tree)
                     ELSE [read |-> 0, write |-> 0, checksum |-> 0]

\* C29: a cycle whose pool map is empty after merge and whitelist filter returns
\* early: from that point it classifies nothing, sends no alert, detects no
\* recovery, and leaves previous_issues and the store as they were; the cycle ends
\* with no alert and no recovery e-mail, whatever issues the previous cycle had.
C29_EmptyPoolMapReturnsEarly ==
    /\ [][(pc = "classify" /\ DOMAIN FilterPools(pools, pools_to_monitor) = {}) =>
            /\ pc' \notin {"handle", "detect"}
            /\ UNCHANGED <<states, fs, previous_issues, issues, delivered>>
            /\ cyc'.sends = <<>>
            /\ cyc'.recoveryCalls = <<>>]_vars
    /\ [](cyc.outcome = "empty" =>
            /\ cyc.sends = <<>>
            /\ cyc.recoveryCalls = <<>>
            /\ cyc.issues = {})

C29_Witness ==
    /\ cyc.outcome = "empty"
    /\ pc = "sleep"
    /\ prevCyc.outcome = "completed"
    /\ prevCyc.issues # {}
    /\ previous_issues # <<>>
    /\ states # <<>>

\* the first cycle of a process sends no recovery e-mail and clears no row
FirstCycleClearsNothing ==
    cycles = 1 =>
        /\ cyc.recoveryCalls = <<>>
        /\ \A k \in DOMAIN load_state(fs, state_file) : k \in DOMAIN states

\* C30: recovery detection reads only the in-memory snapshot, empty at process start:
\* the first cycle sends no recovery e-mail and clears no row, and a row read from
\* the state file (no alert delivered for it by this process) stays until its issue
\* is seen in one completed cycle and found absent in the next, which clears it.
C30_LoadedRowClearedAfterReappearance ==
    /\ FirstCycleClearsNothing
    /\ (cyc.outcome = "completed" /\ prevCyc.outcome = "completed") =>
           \A k \in prevCyc.issues \ cyc.issues :
               (delivered[k] = None /\ k \notin cyc.recoveryFailed) =>
                   _make_key(k[1], k[2]) \notin DOMAIN states
====
